---- MODULE Spec2Model ----
(***************************************************************************)
(* NetSuite node: NetSuite.execute, the per-item loop that turns the       *)
(* parameters of each input item into HTTP requests (SuiteQL, Record,      *)
(* RESTlet), with the two pagination loops and the continue-on-failure     *)
(* catch.  Every await of this.helpers.request is a point where the        *)
(* server's answer (or a transport failure) enters as an input.            *)
(***************************************************************************)
EXTENDS Integers, Sequences, FiniteSets, TLC

\* ------------------------------------------------------------------ bounds
MaxItems == 2
MaxCalls == 3
MaxPageLen == 2
MaxPageSize == 2

\* --------------------------------------------------------------- variables
VARIABLES
    resource,        \* getNodeParameter('resource', 0)
    continueOnFail,  \* this.continueOnFail()
    nItems,          \* items.length
    i,               \* loop index of execute
    pc,              \* where execute stands
    params,          \* the parameters getNodeParameter(.., i) gave for item i
    request,         \* the options of the request awaited (NoRequest if none)
    response,        \* let response (SuiteQL) / const response
    allItems,        \* SuiteQL accumulator
    allResults,      \* RESTlet accumulator
    currentStart,    \* RESTlet offset
    returnData,      \* returnData
    thrown,          \* message of the error execute threw ("" if none)
    totalCalls,      \* history: helpers.request calls made in this run
    signings,        \* history: signing steps (clock reading and nonce draw) run
    authSent,        \* history: timestamp and nonce of every call's header
    completed,       \* history: calls that ended, by a response or a rejection
    calls,           \* history: helpers.request calls made for the latest item
    served,          \* history: the elements the server sent for that item
    lastResponse,    \* history: the last response received for that item
    received,        \* history: responses received for that item
    overrun,         \* history: calls answered beyond MaxCalls, modulo 2
    started,         \* history: the items whose loop iteration began
    errors           \* history: the errors raised, each with its item

vars == <<resource, continueOnFail, nItems, i, pc, params, request, response,
          allItems, allResults, currentStart, returnData, thrown,
          totalCalls, signings, authSent, completed, calls, served,
          lastResponse, received, overrun, started, errors>>

\* ------------------------------------------------------------------ values
Empty == [f \in {} |-> 0]

NoRequest == [kind |-> "none"]
NoResponse == [kind |-> "none"]

Min(S) == CHOOSE x \in S : \A y \in S : x <= y

\* The k-th element the server sends for an item is the number k, so that a
\* page is recognised by its position in the stream of the item.
Page(sent, len) == [k \in 1..len |-> Len(sent) + k]

\* ------------------------------------------------------------------- URLs
\* A URL is its path (the segments after https://host) and its query.
CompanyBase == <<"companyUrl">>
RestletBase == <<"restletBaseUrl">>

SuiteqlBaseUrl == CompanyBase \o <<"services", "rest", "query", "v1", "suiteql">>

SuiteqlQueryUrl(returnAll, limit) ==
    [path |-> SuiteqlBaseUrl,
     query |-> IF ~returnAll THEN ("limit" :> limit) ELSE Empty]

\* ------------------------------------------------------------ OAuth signing
\* const { accountId, consumerKey, consumerSecret, tokenKey, tokenSecret }
\*   = credentials
Credentials ==
    [accountId |-> "ACCT", consumerKey |-> "ck", consumerSecret |-> "cs",
     tokenKey |-> "tk", tokenSecret |-> "ts"]

\* Math.floor(Date.now() / 1000).toString(): the clock in whole seconds at
\* signing step k.  The clock of the model advances by one second every
\* second signing step, so that two steps within one second and two steps
\* in different seconds both occur.
Timestamp(k) == (k + 1) \div 2

\* crypto.randomBytes(16).toString('hex'): the draw of signing step k; two
\* draws of 16 random bytes are taken to differ.
Nonce_Fixed(k) == [draw |-> 0]
Nonce(k) == [draw |-> k]

\* oauthParams
OauthParams(timestamp, nonce) ==
    [oauth_consumer_key |-> Credentials.consumerKey,
     oauth_token |-> Credentials.tokenKey,
     oauth_signature_method |-> "HMAC-SHA256",
     oauth_timestamp |-> timestamp,
     oauth_nonce |-> nonce,
     oauth_version |-> "1.0"]

\* { ...oauthParams, <the parameters of the call site> }: a later key
\* replaces an earlier one of the same name.
AllParams(oauth, extra) == extra @@ oauth

\* A text is the sequence of its pieces: a piece is one character outside the
\* RFC 3986 unreserved set, or a run of unreserved characters.
\* The characters outside the unreserved set that occur, with their codes.
PercentCode ==
    ":" :> "3A" @@ "/" :> "2F" @@ "?" :> "3F" @@ "=" :> "3D" @@ "&" :> "26"
    @@ "%" :> "25" @@ "!" :> "21" @@ "*" :> "2A" @@ "'" :> "27"
    @@ "(" :> "28" @@ ")" :> "29"

\* encodeURIComponent escapes every character except letters, digits and
\* - _ . ! ~ * ' ( )
UriMarks == {"!", "*", "'", "(", ")"}

RECURSIVE EncodeURIComponent(_)
EncodeURIComponent(text) ==
    IF text = <<>> THEN <<>>
    ELSE (IF Head(text) \in DOMAIN PercentCode /\ Head(text) \notin UriMarks
          THEN <<"%", PercentCode[Head(text)]>>
          ELSE <<Head(text)>>)
         \o EncodeURIComponent(Tail(text))

\* The pieces of a path segment or value.
Pieces(word) == IF word = "!transform" THEN <<"!", "transform">> ELSE <<word>>

\* `https://${host}/seg/seg..`
RECURSIVE PathText(_)
PathText(path) ==
    IF path = <<>> THEN <<>>
    ELSE <<"/">> \o Pieces(Head(path)) \o PathText(Tail(path))

UrlText(path) == <<"https", ":", "/">> \o PathText(path)

\* The value of a parameter as the string put into allParams:
\* timestamp.toString(), the hex of the nonce, limit.toString(), a string.
ParamText(key, value) ==
    IF key \in {"oauth_timestamp", "limit", "offset"} THEN <<ToString(value)>>
    ELSE IF key = "oauth_nonce" THEN <<ToString(value.draw)>>
    ELSE Pieces(value)

\* Object.keys(allParams).sort(): the keys in the order of their UTF-16 code
\* units, which for the keys that occur is this order.
KeyOrder ==
    <<"deploy", "limit", "oauth_consumer_key", "oauth_nonce",
      "oauth_signature_method", "oauth_timestamp", "oauth_token",
      "oauth_version", "offset", "script">>

SortedKeys(all) == SelectSeq(KeyOrder, LAMBDA key : key \in DOMAIN all)

\* .map(key => `${encodeURIComponent(key)}=${encodeURIComponent(value)}`)
\* .join('&')
RECURSIVE JoinParams(_, _)
JoinParams(keys, all) ==
    IF keys = <<>> THEN <<>>
    ELSE EncodeURIComponent(<<Head(keys)>>) \o <<"=">>
         \o EncodeURIComponent(ParamText(Head(keys), all[Head(keys)]))
         \o (IF Len(keys) > 1 THEN <<"&">> ELSE <<>>)
         \o JoinParams(Tail(keys), all)

SortedParams(all) == JoinParams(SortedKeys(all), all)

\* `${method}&${encodeURIComponent(baseUrl)}&${encodeURIComponent(sortedParams)}`
BaseString(method, baseUrl, all) ==
    <<method, "&">> \o EncodeURIComponent(UrlText(baseUrl)) \o <<"&">>
    \o EncodeURIComponent(SortedParams(all))

\* crypto.createHmac('sha256', signingKey).update(baseString).digest('base64'):
\* the digest is named by what determines the base string and the key; two
\* digests are equal only if these are.  Its base string is
\* BaseString(signed.method, signed.baseUrl,
\*            AllParams(OauthParams(timestamp, nonce), signed.params)).
Signature(k, signed) ==
    [consumerSecret |-> Credentials.consumerSecret,
     tokenSecret |-> Credentials.tokenSecret,
     timestamp |-> Timestamp(k), nonce |-> Nonce(k), signed |-> signed]

\* The Authorization header signing step k builds for the method, base URL
\* and parameters `signed`.
AuthHeader(k, signed) ==
    [realm |-> Credentials.accountId,
     oauth_consumer_key |-> OauthParams(Timestamp(k), Nonce(k)).oauth_consumer_key,
     oauth_token |-> OauthParams(Timestamp(k), Nonce(k)).oauth_token,
     oauth_signature_method |->
        OauthParams(Timestamp(k), Nonce(k)).oauth_signature_method,
     oauth_timestamp |-> OauthParams(Timestamp(k), Nonce(k)).oauth_timestamp,
     oauth_nonce |-> OauthParams(Timestamp(k), Nonce(k)).oauth_nonce,
     oauth_version |-> OauthParams(Timestamp(k), Nonce(k)).oauth_version,
     oauth_signature |-> Signature(k, signed)]

\* What makes a header single-use: its timestamp and nonce.
Stamp(header) ==
    [oauth_timestamp |-> header.oauth_timestamp,
     oauth_nonce |-> header.oauth_nonce]

\* options = { headers: { 'Authorization': authHeader, .. }, .. }
WithAuthorization(req, header) == [authorization |-> header] @@ req

\* ------------------------------------------------------- SuiteQL, pure parts
\* response.links.find(link => link.rel === 'next')
NextLinks(links) == {k \in 1..Len(links) : links[k].rel = "next"}

HasNextLink(resp) == resp.hasLinks /\ NextLinks(resp.links) /= {}

NoLink == [rel |-> "undefined", href |-> [path |-> <<>>, query |-> Empty]]

FindNextLink(links) ==
    IF NextLinks(links) = {} THEN NoLink ELSE links[Min(NextLinks(links))]

\* if (returnAll && response.hasMore) while (response.hasMore && response.links)
\*   { nextLink = find; if (!nextLink) break; ... }
SuiteqlContinues_NoLinkCheck(returnAll, resp) == returnAll /\ resp.hasMore
SuiteqlContinues_UntilEmptyPage(returnAll, resp) ==
    /\ returnAll /\ resp.hasMore /\ resp.hasLinks
    /\ NextLinks(resp.links) /= {}
    /\ Len(resp.items) > 0
SuiteqlContinues(returnAll, resp) ==
    returnAll /\ resp.hasMore /\ resp.hasLinks /\ NextLinks(resp.links) /= {}

\* allItems = response.items || []   (every answer of the server modelled
\* here has its items array, possibly empty)
FirstItems(resp) == resp.items

\* if (response.items) allItems = allItems.concat(response.items)
ConcatItems_Prepend(acc, resp) == resp.items \o acc
ConcatItems(acc, resp) == acc \o resp.items

\* { ...response, items: allItems, count: allItems.length, hasMore: false }
CombinedResponse(resp, acc) ==
    [links |-> resp.links, hasLinks |-> resp.hasLinks,
     items |-> acc, count |-> Len(acc), hasMore |-> FALSE]

SuiteqlBody(p) == [q |-> p.query]

SuiteqlFirstRequest(p) ==
    [kind |-> "suiteql", method |-> "POST",
     url |-> SuiteqlQueryUrl(p.returnAll, p.limit), body |-> SuiteqlBody(p)]

SuiteqlNextRequest_FirstLink(p, resp) ==
    [kind |-> "suiteql", method |-> "POST",
     url |-> resp.links[1].href, body |-> SuiteqlBody(p)]
SuiteqlNextRequest(p, resp) ==
    [kind |-> "suiteql", method |-> "POST",
     url |-> FindNextLink(resp.links).href, body |-> SuiteqlBody(p)]

\* What the first call signs: requestData.method, baseUrl, and limit when
\* the URL has it.
SuiteqlFirstSigned_AlwaysLimit(p) ==
    [method |-> "POST", baseUrl |-> SuiteqlBaseUrl,
     params |-> ("limit" :> p.limit)]
SuiteqlFirstSigned(p) ==
    [method |-> "POST", baseUrl |-> SuiteqlBaseUrl,
     params |-> IF ~p.returnAll THEN ("limit" :> p.limit) ELSE Empty]

\* What a follow-up call signs: POST, protocol//host/pathname of the next
\* link, and its searchParams.
SuiteqlNextSigned(resp) ==
    [method |-> "POST", baseUrl |-> FindNextLink(resp.links).href.path,
     params |-> FindNextLink(resp.links).href.query]


\* -------------------------------------------------------- Record, pure parts
IdOperations == {"get", "update", "patch", "post", "transform"}
RecordOperations == IdOperations \cup {"create"}

\* let url = base + `/${recordType}`; if (includes(operation) && recordId)
\* url += `/${recordId}`; if (operation === 'transform') url += `/!transform/..`
RecordBase(p) ==
    CompanyBase \o <<"services", "rest", "record", "v1", p.recordType>>

RecordWithId(p) ==
    IF p.operation \in IdOperations /\ p.recordId /= ""
    THEN Append(RecordBase(p), p.recordId)
    ELSE RecordBase(p)

RecordUrl(p) ==
    IF p.operation = "transform"
    THEN RecordWithId(p) \o <<"!transform", p.targetRecordType>>
    ELSE RecordWithId(p)

\* methodMap[operation]
MethodMap_PatchAsPut(op) ==
    CASE op = "get" -> "GET"
      [] op = "create" -> "POST"
      [] op = "update" -> "PUT"
      [] op = "patch" -> "PUT"
      [] op = "post" -> "POST"
      [] op = "transform" -> "POST"
      [] OTHER -> "undefined"
MethodMap(op) ==
    CASE op = "get" -> "GET"
      [] op = "create" -> "POST"
      [] op = "update" -> "PUT"
      [] op = "patch" -> "PATCH"
      [] op = "post" -> "POST"
      [] op = "transform" -> "POST"
      [] OTHER -> "undefined"

\* if (!recordId && [...].includes(operation)) throw
RecordIdMissing_NotTransform(p) ==
    p.recordId = "" /\ p.operation \in (IdOperations \ {"transform"})
RecordIdMissing(p) == p.recordId = "" /\ p.operation \in IdOperations

RecordIdRequiredMessage == "Record ID is required for this operation."

RecordRequest(p) ==
    [kind |-> "record", method |-> MethodMap(p.operation),
     url |-> [path |-> RecordUrl(p), query |-> Empty],
     hasBody |-> p.operation /= "get", body |-> p.body]

\* requestData.method, requestData.url and the OAuth parameters alone
RecordSigned(p) ==
    [method |-> MethodMap(p.operation), baseUrl |-> RecordUrl(p),
     params |-> Empty]

\* location.match(/\/([^\/]+)$/): the text after the last slash, if not empty.
\* A Location value is the sequence of its segments, each after a slash.
LocationMatches(location) ==
    Len(location) > 0 /\ location[Len(location)] /= ""

\* responseData = response.body || {}; on create with a Location header that
\* matches, { ...responseData, id, location }
RecordResponseData_AnyOperation(op, resp) ==
    IF resp.hasLocation /\ LocationMatches(resp.location)
    THEN [body |-> resp.hasBody, hasId |-> TRUE,
          id |-> resp.location[Len(resp.location)], location |-> resp.location]
    ELSE [body |-> resp.hasBody, hasId |-> FALSE, id |-> "", location |-> <<>>]
RecordResponseData(op, resp) ==
    IF op = "create" /\ resp.hasLocation /\ LocationMatches(resp.location)
    THEN [body |-> resp.hasBody, hasId |-> TRUE,
          id |-> resp.location[Len(resp.location)], location |-> resp.location]
    ELSE [body |-> resp.hasBody, hasId |-> FALSE, id |-> "", location |-> <<>>]

\* ------------------------------------------------------- RESTlet, pure parts
RestletBaseUrl == RestletBase \o <<"app", "site", "hosting", "restlet.nl">>

\* `https://${restletBaseUrl}/app/site/hosting/restlet.nl?script=..&deploy=..`
RestletUrl(p) ==
    [path |-> RestletBaseUrl,
     query |-> ("script" :> p.scriptId @@ "deploy" :> p.deployId)]

\* try { parsedBody = JSON.parse(restletBody) } catch { throw .. }: a body
\* is the text given, whether it is valid JSON, and what it parses to.
ParseBody_Lenient(restletBody) == [ok |-> TRUE, value |-> restletBody.parsed]
ParseBody(restletBody) ==
    IF restletBody.valid
    THEN [ok |-> TRUE, value |-> restletBody.parsed]
    ELSE [ok |-> FALSE, value |-> Empty]

InvalidJsonMessage == "Invalid JSON in RESTlet body"

\* let currentStart = parsedBody[startIndexField] || 0
InitialStart(body, startField) ==
    IF startField \in DOMAIN body /\ body[startField] /= 0
    THEN body[startField]
    ELSE 0

\* { ...parsedBody, [startIndexField]: currentStart,
\*   [endIndexField]: currentStart + pageSize }
PaginatedBody_EndIsPageSize(body, startField, endField, start, pageSize) ==
    [f \in DOMAIN body \cup {startField, endField} |->
        IF f = endField THEN pageSize
        ELSE IF f = startField THEN start
        ELSE body[f]]
PaginatedBody(body, startField, endField, start, pageSize) ==
    [f \in DOMAIN body \cup {startField, endField} |->
        IF f = endField THEN start + pageSize
        ELSE IF f = startField THEN start
        ELSE body[f]]

RestletPageRequest(p, start) ==
    [kind |-> "restlet", method |-> "POST", url |-> RestletUrl(p),
     hasBody |-> TRUE,
     body |-> PaginatedBody(p.restletBody.parsed, p.startIndexField,
                            p.endIndexField, start, p.pageSize)]

RestletSingleRequest(p) ==
    [kind |-> "restlet", method |-> "POST", url |-> RestletUrl(p),
     hasBody |-> TRUE, body |-> p.restletBody.parsed]

\* POST, the RESTlet URL without its query, script and deploy
RestletSigned(p) ==
    [method |-> "POST", baseUrl |-> RestletBaseUrl,
     params |-> ("script" :> p.scriptId @@ "deploy" :> p.deployId)]

PossibleFields == <<"results", "data", "items", "records">>

\* Array.isArray(response) ? response : the first of possibleFields that is
\* in response and holds an array; otherwise results stays undefined.
ArrayFields(resp) ==
    {k \in 1..Len(PossibleFields) :
        /\ PossibleFields[k] \in DOMAIN resp.fields
        /\ resp.fields[PossibleFields[k]].isArray}

ExtractResults_LastField(resp) ==
    IF resp.kind = "array"
    THEN [found |-> TRUE, results |-> resp.arr]
    ELSE IF resp.kind = "object" /\ ArrayFields(resp) /= {}
    THEN [found |-> TRUE,
          results |->
            resp.fields[PossibleFields[
                CHOOSE k \in ArrayFields(resp) :
                    \A j \in ArrayFields(resp) : j <= k]].elems]
    ELSE [found |-> FALSE, results |-> <<>>]
ExtractResults(resp) ==
    IF resp.kind = "array"
    THEN [found |-> TRUE, results |-> resp.arr]
    ELSE IF resp.kind = "object" /\ ArrayFields(resp) /= {}
    THEN [found |-> TRUE,
          results |-> resp.fields[PossibleFields[Min(ArrayFields(resp))]].elems]
    ELSE [found |-> FALSE, results |-> <<>>]

\* allResults = allResults.concat(results)
ConcatResults_Replace(acc, results) == results
ConcatResults(acc, results) == acc \o results

\* if (results.length < pageSize) hasMore = false   [inside length > 0]
\* else (empty results) hasMore = false
PageIsLast_OffByOne(results, pageSize) ==
    Len(results) = 0 \/ Len(results) <= pageSize
PageIsLast_FirstPage(results, pageSize) == TRUE
PageIsLast(results, pageSize) ==
    Len(results) = 0 \/ Len(results) < pageSize

AggregateRecord(p, acc, item) ==
    [json |-> [outputField |-> p.outputFieldName, results |-> acc,
               total |-> Len(acc)],
     pairedItem |-> item]

\* if (allResults.length > 0) returnData.push({ [outputFieldName]: allResults,
\*   total: allResults.length })
PushAggregate(rd, p, acc, item) ==
    IF Len(acc) > 0 THEN Append(rd, AggregateRecord(p, acc, item)) ELSE rd

\* fileName.split('.').pop()?.toLowerCase() -> fileType, or unsupported
SupportedExtensions == {"pdf", "xlsx", "xls", "csv"}

UploadRequest(p) ==
    [kind |-> "upload", method |-> "POST",
     url |-> [path |-> RestletBaseUrl, query |-> Empty],
     qs |-> ("script" :> p.uploadScriptId @@ "deploy" :> p.uploadDeploymentId),
     hasBody |-> TRUE,
     body |-> [postType |-> "uploadFile", folderId |-> p.folderId,
               extension |-> p.extension]]

UploadSigned(p) ==
    [method |-> "POST", baseUrl |-> RestletBaseUrl,
     params |-> ("script" :> p.uploadScriptId
                 @@ "deploy" :> p.uploadDeploymentId)]


\* ------------------------------------------------------------------ inputs
Resources == {"suiteql", "record", "restlet", "other"}

\* What getNodeParameter('resource', i) gives for the item at hand, were it
\* asked: for item 0 the resource execute has read; for a later item that
\* one or another.  It is drawn for the items of the batches whose resource
\* is record or none of the three (varied); in a SuiteQL or RESTlet batch
\* every item resolves to the resource of item 0.
ItemResources(varied) ==
    IF i = 0 \/ ~varied THEN {resource}
    ELSE {resource, IF resource = "record" THEN "other" ELSE "record"}

\* const resource = this.getNodeParameter('resource', 0), compared in the
\* if-else chain of every item: the branch item parameters p are handled by.
Branch_PerItem(p) == p.resource
Branch(p) == resource

\* The operation is read and not looked at (an operation that suiteql does
\* not define is tried with returnAll=false).
SuiteqlParams ==
    {p \in [resource : ItemResources(FALSE),
            operation : {"executeQuery", "bogus"},
            query : {"SELECT"}, returnAll : BOOLEAN, limit : {1000}] :
        p.operation = "executeQuery" \/ ~p.returnAll}

RecordParams ==
    [resource : ItemResources(TRUE),
     operation : RecordOperations \cup {"bogus"}, recordType : {"salesOrder"},
     recordId : {"", "42"}, targetRecordType : {"invoice"}, body : {"{}"}]

RestletBodies ==
    {[valid |-> FALSE, parsed |-> Empty],
     [valid |-> TRUE, parsed |-> ("id" :> 7)],
     [valid |-> TRUE, parsed |-> ("id" :> 7 @@ "start" :> 5 @@ "end" :> 9)]}

\* pageSize is a number the host hands over as it is: nothing keeps it
\* positive.
PageSizes == -1..MaxPageSize

\* The pagination parameters are read with returnAll=true and a body that
\* parses; otherwise they are left at one value.  Every page size is tried
\* with the template that has no start field, the largest one with the
\* template that has one, under both names of the start field.
RestletCallParams ==
    {p \in [resource : ItemResources(FALSE),
            operation : {"call"}, scriptId : {"s"}, deployId : {"d"},
            restletBody : RestletBodies, returnAll : BOOLEAN,
            pageSize : PageSizes, startIndexField : {"start", "from"},
            endIndexField : {"end"}, outputFieldName : {"results"}] :
        IF p.returnAll /\ p.restletBody.valid
        THEN IF "start" \in DOMAIN p.restletBody.parsed
             THEN p.pageSize = MaxPageSize
             ELSE p.startIndexField = "start"
        ELSE p.pageSize = 1 /\ p.startIndexField = "start"}

UploadParams ==
    [resource : ItemResources(FALSE),
     operation : {"uploadFile"}, uploadScriptId : {"s"},
     uploadDeploymentId : {"d"}, folderId : {"f"}, hasBinary : BOOLEAN,
     extension : {"pdf", "txt"}]

OtherRestletParams ==
    [resource : ItemResources(FALSE), operation : {"bogus"}]

AnyParams ==
    [resource : ItemResources(TRUE),
     operation : {"executeQuery", "get", "call"}]

\* ------------------------------------------------------------------ server
SelfLink == [rel |-> "self", href |-> [path |-> SuiteqlBaseUrl, query |-> Empty]]

NextLink(offset) ==
    [rel |-> "next",
     href |-> [path |-> SuiteqlBaseUrl,
               query |-> ("limit" :> 1000 @@ "offset" :> offset)]]

LinkChoices(offset) ==
    {[hasLinks |-> FALSE, links |-> <<>>],
     [hasLinks |-> TRUE, links |-> <<SelfLink>>],
     [hasLinks |-> TRUE, links |-> <<SelfLink, NextLink(offset)>>]}

\* The answers a SuiteQL server may give to a call of an item, after it has
\* sent the elements `sent` and n calls were made in the run.  From the
\* MaxCalls-th call of the run on, every answer ends the pagination.
SuiteqlResponses(sent, n) ==
    {r \in UNION {{[kind |-> "suiteql", items |-> Page(sent, len),
                     hasMore |-> h, hasLinks |-> l.hasLinks,
                     links |-> l.links] :
                        h \in BOOLEAN, l \in LinkChoices(Len(sent) + len)} :
                   len \in 0..MaxPageLen} :
        n < MaxCalls \/ ~(r.hasMore /\ HasNextLink(r))}

RecordResponses ==
    {[kind |-> "record", hasBody |-> b, hasLocation |-> Len(l) > 0,
      location |-> l] :
        b \in BOOLEAN,
        l \in {<<>>, <<"record", "v1", "salesOrder", "12345">>,
               <<"record", "v1", "salesOrder", "">>}}

ArrayValue(page) == [isArray |-> TRUE, elems |-> page]
NoArrayValue == [isArray |-> FALSE, elems |-> <<>>]

\* An array that an answer holds beside its results.
Other == <<0>>

\* The shapes of a RESTlet answer that carries the page `page`.
RestletPageShapes(page) ==
    {[kind |-> "array", arr |-> page, fields |-> Empty],
     [kind |-> "object", arr |-> <<>>, fields |-> ("results" :> ArrayValue(page))],
     [kind |-> "object", arr |-> <<>>, fields |-> ("data" :> ArrayValue(page))],
     [kind |-> "object", arr |-> <<>>,
      fields |-> ("data" :> NoArrayValue @@ "items" :> ArrayValue(page))],
     [kind |-> "object", arr |-> <<>>,
      fields |-> ("data" :> ArrayValue(page) @@ "items" :> ArrayValue(Other))]}

\* The RESTlet answers in which the driver finds no results array.
RestletOtherShapes ==
    {[kind |-> "scalar", arr |-> <<>>, fields |-> Empty],
     [kind |-> "object", arr |-> <<>>, fields |-> ("status" :> NoArrayValue)]}

\* The page a RESTlet answer carries, as the server meant it.
PageOf(resp) ==
    IF resp.kind = "array" THEN resp.arr
    ELSE IF resp.kind = "object"
    THEN LET fs == {f \in DOMAIN resp.fields :
                        resp.fields[f].isArray /\ resp.fields[f].elems /= Other}
         IN IF fs = {} THEN <<>> ELSE resp.fields[CHOOSE f \in fs : TRUE].elems
    ELSE <<>>

\* The answers to a page request of an item, n calls having been made in the
\* run.  From the MaxCalls-th call on, every answer ends the pagination: it
\* is a short page, an empty page or an answer without a results array.
RestletResponses(sent, n, pageSize) ==
    {r \in UNION {RestletPageShapes(Page(sent, len)) : len \in 0..MaxPageLen}
           \cup RestletOtherShapes :
        \/ n < MaxCalls
        \/ Len(PageOf(r)) < pageSize
        \/ Len(PageOf(r)) = 0}

RestletSingleResponses ==
    {[kind |-> "array", arr |-> Page(<<>>, 1), fields |-> Empty]}
    \cup RestletOtherShapes

\* ------------------------------------------------------------- the item loop
Locals == <<response, allItems, allResults, currentStart>>
Batch == <<resource, continueOnFail, nItems>>
Wire == <<totalCalls, signings, authSent, overrun>>
History == <<Wire, completed, calls, served, lastResponse, received>>

Awaiting ==
    {"suiteql_first", "suiteql_next", "record", "restlet_page",
     "restlet_single", "upload"}

ErrorRecord(msg, item) == [json |-> [error |-> msg], pairedItem |-> item]

\* The end of one iteration of the for loop: the block's variables go out of
\* scope and i++.
EndItem ==
    /\ i' = i + 1
    /\ pc' = "loop"
    /\ request' = NoRequest
    /\ response' = NoResponse
    /\ allItems' = <<>>
    /\ allResults' = <<>>
    /\ currentStart' = 0

\* catch (error): with continueOnFail the error becomes the item's record and
\* the loop continues; otherwise execute throws.
Catch_Breaks(msg) ==
    IF continueOnFail
    THEN /\ returnData' = Append(returnData, ErrorRecord(msg, i))
         /\ thrown' = thrown
         /\ i' = nItems
         /\ pc' = "loop"
         /\ request' = NoRequest
         /\ UNCHANGED Locals
    ELSE /\ pc' = "thrown"
         /\ thrown' = msg
         /\ request' = NoRequest
         /\ UNCHANGED <<i, returnData, Locals>>
Catch_Swallows(msg) ==
    IF continueOnFail
    THEN /\ returnData' = Append(returnData, ErrorRecord(msg, i))
         /\ thrown' = thrown
         /\ EndItem
    ELSE /\ returnData' = returnData
         /\ thrown' = thrown
         /\ EndItem
Catch_FlushesPartial(msg) ==
    IF continueOnFail
    THEN /\ returnData' =
            Append(Append(returnData,
                          [json |-> [partial |-> allItems \o allResults],
                           pairedItem |-> i]),
                   ErrorRecord(msg, i))
         /\ thrown' = thrown
         /\ EndItem
    ELSE /\ pc' = "thrown"
         /\ thrown' = msg
         /\ request' = NoRequest
         /\ UNCHANGED <<i, returnData, Locals>>
Catch(msg) ==
    IF continueOnFail
    THEN /\ returnData' = Append(returnData, ErrorRecord(msg, i))
         /\ thrown' = thrown
         /\ EndItem
    ELSE /\ pc' = "thrown"
         /\ thrown' = msg
         /\ request' = NoRequest
         /\ UNCHANGED <<i, returnData, Locals>>

\* The signing step and the call it precedes: timestamp and nonce are taken,
\* the Authorization header is built from them and put on the options, then
\* await this.helpers.request(options).
Send_ReusesHeader(req, signed, at) ==
    /\ signings' = IF request = NoRequest THEN signings + 1 ELSE signings
    /\ request' =
        WithAuthorization(req, IF request = NoRequest
                               THEN AuthHeader(signings + 1, signed)
                               ELSE request.authorization)
    /\ pc' = at
    /\ totalCalls' = totalCalls + 1
    /\ authSent' =
        Append(authSent, Stamp(IF request = NoRequest
                               THEN AuthHeader(signings + 1, signed)
                               ELSE request.authorization))
    /\ overrun' = overrun
Send(req, signed, at) ==
    /\ signings' = signings + 1
    /\ request' = WithAuthorization(req, AuthHeader(signings + 1, signed))
    /\ pc' = at
    /\ totalCalls' = totalCalls + 1
    /\ authSent' = Append(authSent, Stamp(AuthHeader(signings + 1, signed)))
    /\ overrun' = overrun

\* The item ends before any request is made for it.
NoCall == calls' = 0 /\ UNCHANGED Wire

Received(resp, page) ==
    /\ completed' = completed + 1
    /\ served' = served \o page
    /\ lastResponse' = resp
    /\ received' = received + 1

\* The first statement of the loop body for item i: its parameters are read
\* and the history of the previous item is forgotten.
Start(p) ==
    /\ params' = p
    /\ served' = <<>>
    /\ lastResponse' = NoResponse
    /\ received' = 0
    /\ started' = started \cup {i}
    /\ completed' = completed

\* throw inside the try block of item i
Raise(msg) ==
    /\ errors' = Append(errors, [item |-> i, message |-> msg])
    /\ Catch(msg)

Init ==
    /\ resource \in Resources
    /\ continueOnFail \in BOOLEAN
    /\ nItems \in 1..MaxItems
    /\ i = 0
    /\ pc = "loop"
    /\ params = [operation |-> ""]
    /\ request = NoRequest
    /\ response = NoResponse
    /\ allItems = <<>>
    /\ allResults = <<>>
    /\ currentStart = 0
    /\ returnData = <<>>
    /\ thrown = ""
    /\ totalCalls = 0
    /\ signings = 0
    /\ authSent = <<>>
    /\ completed = 0
    /\ calls = 0
    /\ served = <<>>
    /\ lastResponse = NoResponse
    /\ received = 0
    /\ overrun = 0
    /\ started = {}
    /\ errors = <<>>

AtItem_NoAwait == pc \in {"loop"} \cup Awaiting /\ i < nItems
AtItem == pc = "loop" /\ i < nItems

\* ---- SuiteQL
SuiteqlBegin ==
    /\ AtItem
    /\ \E p \in SuiteqlParams :
        /\ Branch(p) = "suiteql"
        /\ Start(p)
        /\ Send(SuiteqlFirstRequest(p), SuiteqlFirstSigned(p), "suiteql_first")
        /\ calls' = 1
    /\ UNCHANGED <<Batch, i, Locals, returnData, thrown, errors>>

\* From a response to the next await, or to the push of the combined response.
SuiteqlStep(resp, acc) ==
    /\ Received(resp, resp.items)
    /\ IF SuiteqlContinues(params.returnAll, resp)
       THEN /\ response' = resp
            /\ allItems' = acc
            /\ Send(SuiteqlNextRequest(params, resp), SuiteqlNextSigned(resp),
                    "suiteql_next")
            /\ calls' = calls + 1
            /\ UNCHANGED <<i, allResults, currentStart, returnData>>
       ELSE /\ returnData' =
                Append(returnData,
                       [json |-> CombinedResponse(resp, acc), pairedItem |-> i])
            /\ EndItem
            /\ UNCHANGED <<Wire, calls>>
    /\ UNCHANGED <<Batch, params, thrown, started, errors>>

SuiteqlFirstResponse ==
    /\ pc = "suiteql_first"
    /\ \E resp \in SuiteqlResponses(served, totalCalls) :
        SuiteqlStep(resp, FirstItems(resp))

SuiteqlNextResponse ==
    /\ pc = "suiteql_next"
    /\ \E resp \in SuiteqlResponses(served, totalCalls) :
        SuiteqlStep(resp, ConcatItems(allItems, resp))

\* ---- Record
RecordBegin ==
    /\ AtItem
    /\ \E p \in RecordParams :
        /\ Branch(p) = "record"
        /\ Start(p)
        /\ IF RecordIdMissing(p)
           THEN Raise(RecordIdRequiredMessage) /\ NoCall
           ELSE /\ Send(RecordRequest(p), RecordSigned(p), "record")
                /\ calls' = 1
                /\ UNCHANGED <<i, Locals, returnData, thrown, errors>>
    /\ UNCHANGED Batch

RecordResponse ==
    /\ pc = "record"
    /\ \E resp \in RecordResponses :
        /\ Received(resp, <<>>)
        /\ returnData' =
            Append(returnData,
                   [json |-> RecordResponseData(params.operation, resp),
                    pairedItem |-> i])
    /\ EndItem
    /\ UNCHANGED <<Batch, params, thrown, Wire, calls, started, errors>>

\* ---- RESTlet
RestletCallBegin ==
    /\ AtItem
    /\ \E p \in RestletCallParams :
        /\ Branch(p) = "restlet"
        /\ Start(p)
        /\ IF ~ParseBody(p.restletBody).ok
           THEN Raise(InvalidJsonMessage) /\ NoCall
           ELSE IF p.returnAll
           THEN /\ allResults' = <<>>
                /\ currentStart' =
                    InitialStart(p.restletBody.parsed, p.startIndexField)
                /\ Send(RestletPageRequest(
                            p, InitialStart(p.restletBody.parsed,
                                            p.startIndexField)),
                        RestletSigned(p), "restlet_page")
                /\ calls' = 1
                /\ UNCHANGED <<i, response, allItems, returnData, thrown, errors>>
           ELSE /\ Send(RestletSingleRequest(p), RestletSigned(p), "restlet_single")
                /\ calls' = 1
                /\ UNCHANGED <<i, Locals, returnData, thrown, errors>>
    /\ UNCHANGED Batch

\* From a page's response to the next await, or to the end of the item.
RestletPageResponse ==
    /\ pc = "restlet_page"
    /\ \E resp \in RestletResponses(served, totalCalls, params.pageSize) :
        LET p == params
            ex == ExtractResults(resp)
            acc == IF Len(ex.results) > 0
                   THEN ConcatResults(allResults, ex.results)
                   ELSE allResults
        IN  /\ Received(resp, PageOf(resp))
            /\ IF ~ex.found
               THEN \* push the response as it is, break, then the aggregate
                    /\ returnData' =
                        PushAggregate(
                            Append(returnData,
                                   [json |-> [raw |-> resp], pairedItem |-> i]),
                            p, allResults, i)
                    /\ EndItem
                    /\ UNCHANGED <<Wire, calls>>
               ELSE IF PageIsLast(ex.results, p.pageSize)
               THEN /\ returnData' = PushAggregate(returnData, p, acc, i)
                    /\ EndItem
                    /\ UNCHANGED <<Wire, calls>>
               ELSE /\ allResults' = acc
                    /\ currentStart' = currentStart + p.pageSize
                    /\ Send(RestletPageRequest(p, currentStart + p.pageSize),
                            RestletSigned(p), "restlet_page")
                    /\ calls' = calls + 1
                    /\ UNCHANGED <<i, response, allItems, returnData>>
    /\ UNCHANGED <<Batch, params, thrown, started, errors>>

RestletSingleResponse ==
    /\ pc = "restlet_single"
    /\ \E resp \in RestletSingleResponses :
        /\ Received(resp, PageOf(resp))
        /\ returnData' =
            Append(returnData, [json |-> [raw |-> resp], pairedItem |-> i])
    /\ EndItem
    /\ UNCHANGED <<Batch, params, thrown, Wire, calls, started, errors>>

UploadBegin ==
    /\ AtItem
    /\ \E p \in UploadParams :
        /\ Branch(p) = "restlet"
        /\ Start(p)
        /\ IF ~p.hasBinary
           THEN Raise("No binary data found on item") /\ NoCall
           ELSE IF p.extension \notin SupportedExtensions
           THEN Raise("Unsupported file type") /\ NoCall
           ELSE /\ Send(UploadRequest(p), UploadSigned(p), "upload")
                /\ calls' = 1
                /\ UNCHANGED <<i, Locals, returnData, thrown, errors>>
    /\ UNCHANGED Batch

UploadResponse ==
    /\ pc = "upload"
    /\ \E resp \in RestletSingleResponses :
        /\ Received(resp, <<>>)
        /\ returnData' =
            Append(returnData, [json |-> [raw |-> resp], pairedItem |-> i])
    /\ EndItem
    /\ UNCHANGED <<Batch, params, thrown, Wire, calls, started, errors>>

UnsupportedOperation ==
    /\ AtItem
    /\ \E p \in OtherRestletParams :
        /\ Branch(p) = "restlet"
        /\ Start(p)
        /\ Raise("The operation is not supported for RESTlet resource.")
    /\ NoCall
    /\ UNCHANGED Batch

UnsupportedResource ==
    /\ AtItem
    /\ \E p \in AnyParams :
        /\ Branch(p) \notin {"suiteql", "record", "restlet"}
        /\ Start(p)
        /\ Raise("The resource is not supported.")
    /\ NoCall
    /\ UNCHANGED Batch

\* this.helpers.request rejects: a transport or HTTP error
RequestFails_Retries ==
    /\ pc \in Awaiting
    /\ completed' = completed + 1
    /\ signings' = signings + 1
    /\ request' =
        [request EXCEPT !.authorization =
            AuthHeader(signings + 1, request.authorization.oauth_signature.signed)]
    /\ totalCalls' = totalCalls + 1
    /\ authSent' =
        Append(authSent,
               Stamp(AuthHeader(signings + 1,
                                request.authorization.oauth_signature.signed)))
    /\ calls' = calls + 1
    /\ UNCHANGED <<Batch, i, pc, params, Locals, returnData, thrown, served,
                   lastResponse, received, overrun, started, errors>>
RequestFails ==
    /\ pc \in Awaiting
    /\ Raise("request failed")
    /\ completed' = completed + 1
    /\ UNCHANGED <<Batch, params, Wire, calls, served, lastResponse, received,
                   started>>

\* return [this.helpers.returnJsonArray(returnData)]
Return ==
    /\ pc = "loop"
    /\ i = nItems
    /\ pc' = "returned"
    /\ UNCHANGED <<Batch, i, params, request, Locals, returnData, thrown,
                   History, started, errors>>

Next ==
    \/ SuiteqlBegin
    \/ SuiteqlFirstResponse
    \/ SuiteqlNextResponse
    \/ RecordBegin
    \/ RecordResponse
    \/ RestletCallBegin
    \/ RestletPageResponse
    \/ RestletSingleResponse
    \/ UploadBegin
    \/ UploadResponse
    \/ UnsupportedOperation
    \/ UnsupportedResource
    \/ RequestFails
    \/ Return

Spec == Init /\ [][Next]_vars

\* ---- a server that never ends the pagination
\* The answer of a SuiteQL server that has nothing more to send and still
\* reports hasMore=true with a next link.
EndlessAnswer(sent) ==
    [kind |-> "suiteql", items |-> <<>>, hasMore |-> TRUE, hasLinks |-> TRUE,
     links |-> <<SelfLink, NextLink(Len(sent))>>]

\* The while loop of SuiteQL once MaxCalls calls were made in the run: the
\* same statements as SuiteqlStep; the calls beyond MaxCalls are no longer
\* counted one by one, only their parity is kept.
SuiteqlEndlessResponse ==
    /\ pc = "suiteql_next"
    /\ totalCalls >= MaxCalls
    /\ LET resp == EndlessAnswer(served)
       IN  /\ SuiteqlContinues(params.returnAll, resp)
           /\ response' = resp
           /\ allItems' = ConcatItems(allItems, resp)
           /\ request' = WithAuthorization(
                            SuiteqlNextRequest(params, resp),
                            AuthHeader(signings + 1, SuiteqlNextSigned(resp)))
           /\ lastResponse' = resp
    /\ overrun' = 1 - overrun
    /\ UNCHANGED <<Batch, i, pc, params, allResults, currentStart, returnData,
                   thrown, totalCalls, signings, authSent, completed, calls,
                   served, received, started, errors>>

\* One item, any server: the servers of Spec, which end every pagination by
\* the MaxCalls-th call, and the server that never does.
LiveInit == Init /\ nItems = 1

LiveNext == Next \/ SuiteqlEndlessResponse

\* Every awaited call settles and the loop goes on when it does: the promise
\* of helpers.request resolves or rejects, and execute resumes.
LiveSpec == LiveInit /\ [][LiveNext]_vars /\ WF_vars(LiveNext)


\* ------------------------------------------------------------- properties
Range(f) == {f[x] : x \in DOMAIN f}

\* The records returnData holds for item k, in order.
RecordsOf(k) == SelectSeq(returnData, LAMBDA r : r.pairedItem = k)

IsError(r) == "error" \in DOMAIN r.json

\* The loop body of the latest item ran to its end (by a push or by the
\* catch with continueOnFail); that item is i - 1.
ItemDone == pc \in {"loop", "returned"} /\ i > 0

Latest == RecordsOf(i - 1)

\* The item the history variables are about.
CurrentItem == IF pc \in {"loop", "returned"} THEN i - 1 ELSE i

\* Every request of the latest item was answered.
Answered == calls > 0 /\ received = calls

\* The server sent a results array (possibly empty) in its last answer.
Recognised(resp) == resp.kind \in {"array", "object"} /\ resp \notin RestletOtherShapes

SuiteqlPaging ==
    resource = "suiteql" /\ params.operation /= "" /\ params.returnAll

RestletPaging ==
    resource = "restlet" /\ params.operation = "call" /\ params.returnAll

\* C1: SuiteQL with returnAll=true, over n >= 1 pages of which every one but
\* the last has hasMore=true and a next link and the last has hasMore=false:
\* a request is awaited after a response only if that response had hasMore
\* and a next link, the item ends only on a response that lacks one of the
\* two, and then the one output holds the concatenation of all pages in
\* fetch order, its length as count and hasMore=false, after exactly n calls.
C1_SuiteqlAllPages ==
    SuiteqlPaging =>
        /\ pc = "suiteql_next" =>
            /\ lastResponse.hasMore /\ HasNextLink(lastResponse)
            /\ calls = received + 1
            /\ allItems = served
        /\ (ItemDone /\ Answered) =>
            ~(lastResponse.hasMore /\ HasNextLink(lastResponse))
        /\ (ItemDone /\ Answered /\ ~lastResponse.hasMore) =>
            /\ Len(Latest) = 1
            /\ Latest[1].json.items = served
            /\ Latest[1].json.count = Len(served)
            /\ Latest[1].json.hasMore = FALSE

\* Pages of 2, 2 and 1 items gave one output of 5 items after 3 calls.
C1_Witness ==
    /\ SuiteqlPaging /\ ItemDone /\ calls = 3 /\ received = 3
    /\ ~lastResponse.hasMore
    /\ lastResponse.items = <<5>>
    /\ served = <<1, 2, 3, 4, 5>>
    /\ Len(Latest) = 1
    /\ Latest[1].json.items = <<1, 2, 3, 4, 5>>
    /\ Latest[1].json.count = 5

\* C2: SuiteQL with returnAll=false makes exactly one call and its output is
\* the first page with the hasMore the server reported.
C2_FirstPageKeepsHasMore ==
    (resource = "suiteql" /\ params.operation /= "" /\ ~params.returnAll) =>
        /\ calls = 1
        /\ (ItemDone /\ Answered) =>
            /\ Len(Latest) = 1
            /\ Latest[1].json.items = lastResponse.items
            /\ Latest[1].json.hasMore = lastResponse.hasMore

\* C3: RESTlet call with returnAll=true whose first response is an empty
\* results array: one call, and the output {[outputField]: [], total: 0}.
C3_EmptyFirstPageYieldsEmptyAggregate ==
    (RestletPaging /\ ItemDone /\ received = 1 /\ Recognised(lastResponse)
        /\ PageOf(lastResponse) = <<>>) =>
        /\ calls = 1
        /\ Latest = <<[json |-> [outputField |-> params.outputFieldName,
                                 results |-> <<>>, total |-> 0],
                       pairedItem |-> i - 1]>>

\* C4: with continue-on-failure, the data returned for n items holds exactly
\* n records, the k-th paired with item k.
C4_OneRecordPerItem ==
    (pc = "returned" /\ continueOnFail) =>
        /\ Len(returnData) = nItems
        /\ \A k \in 1..Len(returnData) : returnData[k].pairedItem = k - 1

\* C5: RESTlet call with returnAll=true: a response with no results array
\* ends the pagination without an error and is the only record of the item,
\* also after earlier pages were accumulated.
C5_RawResponseIsSoleRecord ==
    (RestletPaging /\ received > 0 /\ ~Recognised(lastResponse)) =>
        /\ ItemDone
        /\ received = calls
        /\ Latest = <<[json |-> [raw |-> lastResponse], pairedItem |-> i - 1]>>

\* C6: RESTlet call with returnAll=true and pageSize >= 1: a page request is
\* awaited after a response only if that response held at least pageSize
\* results, the item ends on the first page shorter than pageSize (or empty),
\* and the accumulator is the concatenation of all pages in order.
C6_ShortPageEndsPagination ==
    (RestletPaging /\ params.pageSize >= 1) =>
        /\ (pc = "restlet_page" /\ received > 0) =>
            /\ Recognised(lastResponse)
            /\ Len(PageOf(lastResponse)) >= params.pageSize
            /\ calls = received + 1
            /\ allResults = served
        /\ (ItemDone /\ Answered /\ Recognised(lastResponse)) =>
            /\ Len(PageOf(lastResponse)) < params.pageSize
            /\ served /= <<>> =>
                /\ Len(Latest) = 1
                /\ Latest[1].json.results = served
                /\ Latest[1].json.total = Len(served)

\* pageSize 2 and pages of 2, 2 and 1 results: 5 results after 3 calls.
C6_Witness ==
    /\ RestletPaging /\ ItemDone /\ params.pageSize = 2
    /\ calls = 3 /\ received = 3
    /\ PageOf(lastResponse) = <<5>>
    /\ Len(Latest) = 1
    /\ Latest[1].json.results = <<1, 2, 3, 4, 5>>

\* C7: SuiteQL with returnAll=true: after a response with hasMore=true and no
\* next link (or no links) no request is made, no error is raised, and the
\* item has its one output built from the pages fetched so far.
C7_MissingNextLinkEndsLoop ==
    SuiteqlPaging =>
        /\ pc = "suiteql_next" => HasNextLink(lastResponse)
        /\ (received > 0 /\ lastResponse.hasMore /\ ~HasNextLink(lastResponse)) =>
            /\ ItemDone
            /\ received = calls
            /\ \A n \in 1..Len(errors) : errors[n].item /= i - 1
            /\ Len(Latest) = 1
            /\ ~IsError(Latest[1])
            /\ Latest[1].json.items = served
            /\ Latest[1].json.count = Len(served)

\* The second page said hasMore=true and carried no links.
C7_Witness ==
    /\ SuiteqlPaging /\ ItemDone /\ calls = 2 /\ received = 2
    /\ lastResponse.hasMore /\ ~lastResponse.hasLinks
    /\ Len(Latest) = 1
    /\ Latest[1].json.items = served
    /\ Len(served) = 3

\* C8: Record resource: get, update, patch, post and transform with an empty
\* recordId raise 'Record ID is required for this operation.' with no HTTP
\* call made for the item; create is not subject to the check.
C8_RecordIdRequired ==
    (resource = "record" /\ params.operation /= "") =>
        /\ (params.recordId = ""
            /\ params.operation \in {"get", "update", "patch", "post", "transform"}) =>
            /\ calls = 0
            /\ pc \in {"loop", "returned", "thrown"}
            /\ \E n \in 1..Len(errors) :
                errors[n] = [item |-> CurrentItem,
                             message |-> "Record ID is required for this operation."]
        /\ params.operation = "create" =>
            /\ calls = 1
            /\ \A n \in 1..Len(errors) :
                errors[n].item = CurrentItem =>
                    errors[n].message /= "Record ID is required for this operation."

\* patch without a record ID threw before any call.
C8_Witness ==
    /\ resource = "record" /\ pc = "thrown"
    /\ params.operation = "patch" /\ params.recordId = ""
    /\ calls = 0 /\ totalCalls = 0
    /\ thrown = "Record ID is required for this operation."

\* C9: Record resource: an operation that passes the record-ID check issues
\* exactly one call, with the method get->GET, create->POST, update->PUT,
\* patch->PATCH, post->POST, transform->POST and the path base/recordType,
\* then /recordId exactly for get, update, patch, post and transform, then
\* /!transform/targetRecordType exactly for transform.
C9_RecordMethodAndUrl ==
    (resource = "record" /\ params.operation \in RecordOperations
        /\ ~(params.recordId = "" /\ params.operation /= "create")) =>
        /\ calls = 1
        /\ pc = "record" =>
            /\ request.method =
                (CASE params.operation = "get" -> "GET"
                   [] params.operation = "create" -> "POST"
                   [] params.operation = "update" -> "PUT"
                   [] params.operation = "patch" -> "PATCH"
                   [] params.operation = "post" -> "POST"
                   [] params.operation = "transform" -> "POST")
            /\ request.url.path =
                <<"companyUrl", "services", "rest", "record", "v1">>
                \o <<params.recordType>>
                \o (IF params.operation /= "create"
                    THEN <<params.recordId>> ELSE <<>>)
                \o (IF params.operation = "transform"
                    THEN <<"!transform", params.targetRecordType>> ELSE <<>>)
            /\ request.url.query = Empty

\* transform of salesOrder 42 to invoice: POST .../salesOrder/42/!transform/invoice
C9_Witness ==
    /\ resource = "record" /\ pc = "record" /\ calls = 1
    /\ params.operation = "transform"
    /\ request.method = "POST"
    /\ request.url.path =
        <<"companyUrl", "services", "rest", "record", "v1", "salesOrder", "42",
          "!transform", "invoice">>

\* C10: with continue-on-failure, an error raised for item i becomes the
\* record {error: message} paired with item i, execute does not throw, and
\* the later items are processed in order, each record paired with its item.
C10_ErrorsAreIsolated ==
    continueOnFail =>
        /\ pc /= "thrown" /\ thrown = ""
        /\ \A n \in 1..Len(errors) :
            RecordsOf(errors[n].item) =
                <<[json |-> [error |-> errors[n].message],
                   pairedItem |-> errors[n].item]>>
        /\ started = 0..CurrentItem
        /\ pc = "returned" => started = 0..(nItems - 1)
        /\ \A k \in 1..Len(returnData) :
            /\ returnData[k].pairedItem \in started
            /\ k > 1 => returnData[k - 1].pairedItem <= returnData[k].pairedItem

\* Item 0 failed in transport, item 1 was still requested and answered.
C10_Witness ==
    /\ continueOnFail /\ pc = "returned" /\ nItems = 2
    /\ Len(errors) = 1 /\ errors[1].item = 0
    /\ Len(returnData) = 2
    /\ IsError(returnData[1]) /\ returnData[1].pairedItem = 0
    /\ ~IsError(returnData[2]) /\ returnData[2].pairedItem = 1
    /\ calls = 1 /\ received = 1

\* C11: with continue-on-failure disabled, the first error raised for an item
\* aborts the batch: execute throws that error, no request is in flight or
\* made afterwards, no later item is begun, and nothing is returned, the
\* records of earlier items included.
C11_FirstErrorAborts ==
    (~continueOnFail /\ errors /= <<>>) =>
        /\ Len(errors) = 1
        /\ pc = "thrown" /\ thrown = errors[1].message
        /\ request = NoRequest
        /\ totalCalls = completed
        /\ i = errors[1].item
        /\ started = 0..errors[1].item

\* Item 0 gave its record, item 1 failed: execute threw and returned nothing.
C11_Witness ==
    /\ ~continueOnFail /\ nItems = 2 /\ pc = "thrown"
    /\ errors = <<[item |-> 1, message |-> thrown]>>
    /\ Len(returnData) = 1 /\ returnData[1].pairedItem = 0
    /\ ~IsError(returnData[1])

\* C12: every call, the page requests of both pagination loops included, is
\* preceded by a signing step of its own that takes a new timestamp and a
\* new nonce: there are as many signing steps as calls, the latest call
\* carries the timestamp and the nonce of the latest signing step, and its
\* header is on no earlier call.
C12_FreshSignaturePerCall ==
    /\ signings = totalCalls
    /\ Len(authSent) = totalCalls
    /\ totalCalls > 0 =>
        /\ authSent[totalCalls].oauth_timestamp = Timestamp(signings)
        /\ authSent[totalCalls].oauth_nonce = Nonce(signings)
        /\ \A k \in 1..(totalCalls - 1) :
            /\ authSent[k] /= authSent[totalCalls]
            /\ authSent[k].oauth_nonce /= authSent[totalCalls].oauth_nonce
    /\ pc \in Awaiting =>
        /\ totalCalls > 0
        /\ Stamp(request.authorization) = authSent[totalCalls]

\* The third page request of a RESTlet item carries the third signature.
C12_Witness ==
    /\ RestletPaging /\ pc = "restlet_page" /\ calls = 3 /\ totalCalls = 3
    /\ request.authorization.oauth_nonce = Nonce(3)
    /\ request.authorization.oauth_timestamp = Timestamp(3)
    /\ authSent[1] /= authSent[2] /\ authSent[2] /= authSent[3]

\* The calls of the latest item that were rejected.
Rejected ==
    {n \in 1..Len(errors) :
        errors[n].item = CurrentItem /\ errors[n].message = "request failed"}

\* C13: each call is attempted once: every call of an item was answered, was
\* rejected or is in flight; a rejected call is the last call of its item,
\* which ends with it, nothing being sent again.
C13_NoRetry ==
    /\ Cardinality(Rejected) <= 1
    /\ calls = received + Cardinality(Rejected)
                + (IF pc \in Awaiting THEN 1 ELSE 0)
    /\ Rejected /= {} =>
        /\ pc \in {"loop", "returned", "thrown"}
        /\ request = NoRequest
    /\ totalCalls = completed + (IF pc \in Awaiting THEN 1 ELSE 0)

\* The second page request of a SuiteQL item was rejected: the item ended
\* with two calls made, one answered.
C13_Witness ==
    /\ SuiteqlPaging /\ continueOnFail /\ pc = "loop"
    /\ Rejected /= {}
    /\ calls = 2 /\ received = 1
    /\ Len(Latest) = 1 /\ IsError(Latest[1])

\* The calls made and not yet ended.
InFlight == totalCalls - completed

\* C14: at most one request is in flight: a signing step runs only when
\* every earlier call has ended, and the items are begun in input order, the
\* first request of an item being signed after every request of the items
\* before it has ended.
C14_OneRequestInFlight ==
    /\ InFlight \in {0, 1}
    /\ InFlight = 1 <=> pc \in Awaiting
    /\ signings <= completed + 1
    /\ pc \in Awaiting =>
        /\ request /= NoRequest
        /\ signings = completed + 1
        /\ completed = (totalCalls - calls) + received
    /\ started = 0..CurrentItem
    /\ \A k \in 1..Len(returnData) : returnData[k].pairedItem <= CurrentItem

\* The first request of item 1 is in flight; the two calls of item 0 ended.
C14_Witness ==
    /\ pc \in Awaiting /\ i = 1 /\ calls = 1
    /\ totalCalls = 3 /\ completed = 2 /\ signings = 3
    /\ Len(returnData) = 1 /\ returnData[1].pairedItem = 0

\* A record item whose one call was answered.
RecordAnswered ==
    resource = "record" /\ ItemDone /\ Answered /\ Len(Latest) = 1

\* C15 as stated: on create, a response with no body and a Location header
\* gives an output whose id is the trailing path segment of the Location
\* value and whose location is that value; for the other operations nothing
\* is derived from the headers.
C15_LocationAlwaysGivesId ==
    RecordAnswered =>
        /\ (params.operation = "create" /\ ~lastResponse.hasBody
            /\ lastResponse.hasLocation) =>
            /\ Latest[1].json.hasId
            /\ Latest[1].json.id =
                lastResponse.location[Len(lastResponse.location)]
            /\ Latest[1].json.location = lastResponse.location
        /\ params.operation /= "create" =>
            /\ ~Latest[1].json.hasId
            /\ Latest[1].json.location = <<>>

\* C15, amended: on create, a response with no body and a Location header
\* whose value ends in a slash followed by a non-empty segment gives an
\* output whose id is that segment and whose location is the header value;
\* a Location value with no such ending gives neither id nor location; for
\* the other operations nothing is derived from the headers.
C15_MatchingLocationGivesId ==
    RecordAnswered =>
        /\ (params.operation = "create" /\ ~lastResponse.hasBody
            /\ lastResponse.hasLocation) =>
            IF lastResponse.location[Len(lastResponse.location)] /= ""
            THEN /\ Latest[1].json.hasId
                 /\ Latest[1].json.id =
                     lastResponse.location[Len(lastResponse.location)]
                 /\ Latest[1].json.location = lastResponse.location
            ELSE /\ ~Latest[1].json.hasId
                 /\ Latest[1].json.location = <<>>
        /\ params.operation /= "create" =>
            /\ ~Latest[1].json.hasId
            /\ Latest[1].json.location = <<>>

\* create answered with no body and Location .../salesOrder/12345.
C15_Witness ==
    /\ RecordAnswered /\ params.operation = "create"
    /\ ~lastResponse.hasBody
    /\ lastResponse.location = <<"record", "v1", "salesOrder", "12345">>
    /\ Latest[1].json.id = "12345"
    /\ Latest[1].json.location = <<"record", "v1", "salesOrder", "12345">>

\* C16: RESTlet call with returnAll=true: the k-th request of an item
\* (k = 0, 1, ..) has the body of the template with [startField] set to
\* s0 + k*pageSize and [endField] set to s0 + (k+1)*pageSize, s0 being the
\* template's [startField] or 0 when it has none; the other fields are
\* those of the template, which is not changed.
C16_PageRequestBody ==
    (RestletPaging /\ params.restletBody.valid) =>
        LET t == params.restletBody.parsed
            sf == params.startIndexField
            ef == params.endIndexField
            s0 == IF sf \in DOMAIN t THEN t[sf] ELSE 0
            k == calls - 1
        IN  /\ params.restletBody \in RestletBodies
            /\ pc = "restlet_page" =>
                /\ DOMAIN request.body = DOMAIN t \cup {sf, ef}
                /\ request.body[sf] = s0 + k * params.pageSize
                /\ request.body[ef] = s0 + (k + 1) * params.pageSize
                /\ \A f \in DOMAIN t \ {sf, ef} : request.body[f] = t[f]

\* Template {id: 7, start: 5, end: 9}, pageSize 2: the third request asks
\* for 9 to 11.
C16_Witness ==
    /\ RestletPaging /\ pc = "restlet_page" /\ calls = 3
    /\ params.pageSize = 2 /\ params.startIndexField = "start"
    /\ params.restletBody.parsed = ("id" :> 7 @@ "start" :> 5 @@ "end" :> 9)
    /\ request.body = ("id" :> 7 @@ "start" :> 9 @@ "end" :> 11)

\* The aggregated records among the records of the latest item.
Aggregates == SelectSeq(Latest, LAMBDA r : "total" \in DOMAIN r.json)

\* C17: RESTlet call with returnAll=true: an aggregated record, whenever one
\* is emitted, is {[outputField]: accumulated, total: N}, accumulated being
\* the pages of the item concatenated in order and N its length; an item
\* has at most one.
C17_AggregateShape ==
    (RestletPaging /\ ItemDone) =>
        /\ Len(Aggregates) <= 1
        /\ \A n \in 1..Len(Aggregates) :
            /\ Aggregates[n].json =
                [outputField |-> params.outputFieldName,
                 results |-> served, total |-> Len(served)]
            /\ Aggregates[n].pairedItem = i - 1
            /\ served /= <<>>

\* pageSize 1 and pages [1], [2], []: {results: [1, 2], total: 2}.
C17_Witness ==
    /\ RestletPaging /\ ItemDone /\ params.pageSize = 1
    /\ calls = 3 /\ received = 3 /\ Recognised(lastResponse)
    /\ PageOf(lastResponse) = <<>>
    /\ Latest = <<[json |-> [outputField |-> "results", results |-> <<1, 2>>,
                             total |-> 2],
                   pairedItem |-> i - 1]>>

\* The results accumulated for the latest item of a RESTlet pagination.
Accumulated ==
    IF pc = "restlet_page" THEN allResults
    ELSE IF Len(Aggregates) > 0 THEN Aggregates[1].json.results
    ELSE <<>>

\* The pages the server sent for the item before its last answer.
Before == SubSeq(served, 1, Len(served) - Len(PageOf(lastResponse)))

\* A RESTlet pagination whose last answer was processed.
PageProcessed ==
    /\ RestletPaging /\ received > 0
    /\ pc = "restlet_page" \/ (ItemDone /\ Answered)

\* C18 as stated: an answer that is an array is the page's results; of an
\* object answer the results are those of the first field present, in the
\* order results, data, items, records.
C18_FirstFieldPresent ==
    PageProcessed =>
        LET order == <<"results", "data", "items", "records">>
            present == {k \in 1..4 : order[k] \in DOMAIN lastResponse.fields}
        IN  /\ lastResponse.kind = "array" =>
                Accumulated = Before \o lastResponse.arr
            /\ (lastResponse.kind = "object" /\ present /= {}) =>
                Accumulated =
                    Before \o lastResponse.fields[order[Min(present)]].elems

\* C18, amended: an answer that is an array is the page's results; of an
\* object answer the results are those of the first field that is present
\* and holds an array, in the order results, data, items, records.
C18_FirstArrayField ==
    PageProcessed =>
        LET order == <<"results", "data", "items", "records">>
            arrays == {k \in 1..4 :
                        /\ order[k] \in DOMAIN lastResponse.fields
                        /\ lastResponse.fields[order[k]].isArray}
        IN  /\ lastResponse.kind = "array" =>
                Accumulated = Before \o lastResponse.arr
            /\ (lastResponse.kind = "object" /\ arrays /= {}) =>
                Accumulated =
                    Before \o lastResponse.fields[order[Min(arrays)]].elems

\* The second answer held its page under data and another array under
\* items: the page under data was taken.
C18_Witness ==
    /\ PageProcessed /\ received = 2
    /\ lastResponse.kind = "object"
    /\ DOMAIN lastResponse.fields = {"data", "items"}
    /\ lastResponse.fields["items"] = [isArray |-> TRUE, elems |-> <<0>>]
    /\ lastResponse.fields["data"].elems = <<2>>
    /\ Accumulated = <<1, 2>>

\* The operations each resource defines.
DefinedOperations ==
    CASE resource = "suiteql" -> {"executeQuery"}
      [] resource = "record" ->
            {"get", "create", "update", "patch", "post", "transform"}
      [] resource = "restlet" -> {"call", "uploadFile"}
      [] OTHER -> {}

\* C19: a resource other than suiteql, record and restlet, and an operation
\* the resource does not define, raise an error on dispatch: an error is
\* raised for the item and no call is made for it.
C19_UnsupportedRaises ==
    (params.operation /= "" /\ params.operation \notin DefinedOperations) =>
        /\ calls = 0
        /\ pc \in {"loop", "returned", "thrown"}
        /\ \E n \in 1..Len(errors) : errors[n].item = CurrentItem

\* C20: RESTlet call: a body that is not valid JSON raises 'Invalid JSON in
\* RESTlet body' before any signing step and any call of the item, with
\* returnAll=true and with returnAll=false: the item ends with the error, no
\* call made for it and no signing step run without its call.
C20_InvalidJsonBody ==
    (resource = "restlet" /\ params.operation = "call"
        /\ ~params.restletBody.valid) =>
        /\ calls = 0
        /\ signings = totalCalls
        /\ request = NoRequest
        /\ pc \in {"loop", "returned", "thrown"}
        /\ \E n \in 1..Len(errors) :
            errors[n] = [item |-> CurrentItem,
                         message |-> "Invalid JSON in RESTlet body"]

\* Item 0 made its call; item 1, returnAll=true, has a body that does not
\* parse: the error is its record and no signing step or call was added.
C20_Witness ==
    /\ resource = "restlet" /\ params.operation = "call"
    /\ ~params.restletBody.valid /\ params.returnAll
    /\ pc = "loop" /\ i = 2
    /\ calls = 0 /\ totalCalls = 1 /\ signings = 1
    /\ Latest = <<[json |-> [error |-> "Invalid JSON in RESTlet body"],
                   pairedItem |-> 1]>>

\* --------------------------------------------------------------------------
\* The answer ends the SuiteQL pagination: a page with hasMore=false or
\* without a next link.
SuiteqlEnds(resp) == ~(resp.hasMore /\ HasNextLink(resp))

\* So far every call of the SuiteQL returnAll item was answered by a page
\* with hasMore=true and a next link.
NeverEnded ==
    SuiteqlPaging =>
        /\ errors = <<>>
        /\ received > 0 => ~SuiteqlEnds(lastResponse)

SuiteqlRunning ==
    pc \in {"suiteql_first", "suiteql_next"} /\ returnData = <<>>

\* C21: SuiteQL with returnAll=true.  If the server at some point answers
\* with a page that has hasMore=false or no next link, the item ends with its
\* one combined record.  If every answer has hasMore=true and a next link
\* (and no call fails), the item never ends and nothing is ever emitted,
\* however many calls were made.
C21_EndsWhenServerEnds ==
    /\ (<>(SuiteqlPaging /\ received > 0 /\ SuiteqlEnds(lastResponse)))
        => <>(SuiteqlPaging /\ ItemDone /\ Len(Latest) = 1)
    /\ ([]NeverEnded) => [](SuiteqlPaging => SuiteqlRunning)

\* The driver awaits a call made beyond the MaxCalls-th one, every answer so
\* far having had hasMore=true and a next link, with nothing emitted.
C21_Witness ==
    /\ SuiteqlPaging
    /\ pc = "suiteql_next"
    /\ overrun = 1
    /\ NeverEnded
    /\ returnData = <<>>

\* --------------------------------------------------------------------------
\* The answer ends the RESTlet pagination: an answer without a results
\* array, an empty page, or a page of fewer than pageSize results.
RestletEnds(resp, pageSize) ==
    \/ ~Recognised(resp)
    \/ Len(PageOf(resp)) = 0
    \/ Len(PageOf(resp)) < pageSize

\* C22: RESTlet call with returnAll=true.  An answer that is a short page, an
\* empty page or has no results array ends the item at once; any other answer
\* is followed by the next page request, whatever the number of calls made;
\* and against a server that ends the pagination at some call the item
\* always comes to an end (its record, an error record, or the throw).
C22_RestletEndsWithServer ==
    /\ [](RestletPaging /\ received > 0 /\ errors = <<>> =>
            IF RestletEnds(lastResponse, params.pageSize)
            THEN ItemDone /\ received = calls
            ELSE pc = "restlet_page" /\ calls = received + 1)
    /\ (RestletPaging /\ pc = "restlet_page") ~> (ItemDone \/ pc = "thrown")

\* A pagination that ran up to the MaxCalls-th call and was ended there by
\* the server.
C22_Witness ==
    /\ RestletPaging /\ ItemDone
    /\ calls = MaxCalls /\ received = MaxCalls
    /\ errors = <<>>
    /\ RestletEnds(lastResponse, params.pageSize)

\* --------------------------------------------------------------------------
\* The method, base URL and parameters the request in flight was signed for.
Signed == request.authorization.oauth_signature.signed

\* The header fields that come from the credentials and from constants.
FixedFields(header) ==
    [realm |-> header.realm,
     oauth_consumer_key |-> header.oauth_consumer_key,
     oauth_token |-> header.oauth_token,
     oauth_signature_method |-> header.oauth_signature_method,
     oauth_version |-> header.oauth_version]

RECURSIVE Rfc3986Encode(_)
Rfc3986Encode(text) ==
    IF text = <<>> THEN <<>>
    ELSE (IF Head(text) \in DOMAIN PercentCode
          THEN <<"%", PercentCode[Head(text)]>>
          ELSE <<Head(text)>>)
         \o Rfc3986Encode(Tail(text))

RECURSIVE Rfc3986Join(_, _)
Rfc3986Join(keys, all) ==
    IF keys = <<>> THEN <<>>
    ELSE Rfc3986Encode(<<Head(keys)>>) \o <<"=">>
         \o Rfc3986Encode(ParamText(Head(keys), all[Head(keys)]))
         \o (IF Len(keys) > 1 THEN <<"&">> ELSE <<>>)
         \o Rfc3986Join(Tail(keys), all)

\* The parameters merged for the request in flight, and its base string.
SignedParams ==
    AllParams(OauthParams(request.authorization.oauth_signature.timestamp,
                          request.authorization.oauth_signature.nonce),
              Signed.params)

SignedBaseString == BaseString(Signed.method, Signed.baseUrl, SignedParams)

\* C24: the base string of every request is the method, the RFC 3986
\* encoding of the base URL, and the RFC 3986 encoding of the parameters
\* joined as key=value by &, each merged parameter once, keys ascending,
\* keys and values RFC 3986 encoded: no character outside the unreserved set
\* is left as it is, the '!' of /!transform/ included.
C24_BaseStringRfc3986 ==
    pc \in Awaiting =>
        /\ Len(SortedKeys(SignedParams)) = Cardinality(DOMAIN SignedParams)
        /\ SignedBaseString =
              <<Signed.method, "&">>
              \o Rfc3986Encode(UrlText(Signed.baseUrl)) \o <<"&">>
              \o Rfc3986Encode(
                    Rfc3986Join(SortedKeys(SignedParams), SignedParams))

\* --------------------------------------------------------------------------
\* The query of the URL a request goes to: the query of options.url and the
\* parameters of options.qs, which the HTTP helper appends.
SentQuery(req) ==
    IF "qs" \in DOMAIN req THEN req.qs @@ req.url.query ELSE req.url.query

\* C25: for every call, the parameters signed beside the OAuth ones are the
\* query parameters of the URL the call goes to, with the same values, the
\* signed base URL is that URL without its query and the signed method is the
\* method of the call: limit for a SuiteQL call with returnAll=false and
\* nothing with returnAll=true, the query of the next link for a follow-up
\* page, script and deploy for RESTlet calls and uploads, nothing for record
\* calls; the signed parts are method, base URL and parameters, never the
\* body.
C25_SignedParamsAreQuery ==
    pc \in Awaiting =>
        /\ DOMAIN Signed = {"method", "baseUrl", "params"}
        /\ Signed.params = SentQuery(request)
        /\ Signed.baseUrl = request.url.path
        /\ Signed.method = request.method
        /\ pc = "suiteql_first" =>
            DOMAIN Signed.params = IF params.returnAll THEN {} ELSE {"limit"}
        /\ pc = "suiteql_next" =>
            /\ Signed.params = FindNextLink(lastResponse.links).href.query
            /\ Signed.baseUrl = FindNextLink(lastResponse.links).href.path
        /\ pc = "record" => DOMAIN Signed.params = {}
        /\ pc \in {"restlet_page", "restlet_single", "upload"} =>
            DOMAIN Signed.params = {"script", "deploy"}

\* A follow-up page of SuiteQL in flight, signed with the limit and offset
\* of the next link it is sent to.
C25_Witness ==
    /\ SuiteqlPaging /\ pc = "suiteql_next"
    /\ DOMAIN request.url.query = {"limit", "offset"}
    /\ Signed.params = request.url.query
    /\ request.url.query["offset"] = Len(served)
    /\ Len(served) > 0

\* --------------------------------------------------------------------------
\* C26: SuiteQL with returnAll=true: every request of the item is a POST
\* with the body {q: query}; a follow-up request goes to the href of the
\* rel='next' link of the response received just before it.
C26_FollowUpRequest ==
    (SuiteqlPaging /\ pc \in {"suiteql_first", "suiteql_next"}) =>
        /\ request.method = "POST"
        /\ request.body = [q |-> params.query]
        /\ pc = "suiteql_next" =>
            /\ received = calls - 1
            /\ response = lastResponse
            /\ HasNextLink(lastResponse)
            /\ \E k \in NextLinks(lastResponse.links) :
                request.url = lastResponse.links[k].href

\* The third request of an item goes to the next link of the second
\* response, which is not that of the first.
C26_Witness ==
    /\ SuiteqlPaging /\ pc = "suiteql_next" /\ calls = 3 /\ received = 2
    /\ request.url = NextLink(Len(served)).href
    /\ Len(served) > Len(lastResponse.items)
    /\ Len(lastResponse.items) > 0
    /\ request.body = [q |-> "SELECT"]

\* --------------------------------------------------------------------------
\* C27: SuiteQL with returnAll=true: when the item's output says
\* hasMore=false, the last response received for the item said hasMore=false.
C27_HasMoreFalseMeansNoMore ==
    (SuiteqlPaging /\ ItemDone /\ Answered /\ Len(Latest) = 1
        /\ ~IsError(Latest[1]) /\ ~Latest[1].json.hasMore) =>
        ~lastResponse.hasMore

\* --------------------------------------------------------------------------
\* C28: a call of a pagination that is rejected, on whatever page, leaves
\* nothing of the pages accumulated before it in the output: with
\* continueOnFail the item has its error record alone, otherwise execute
\* throws with no record for the item.  Between two items the accumulators
\* are empty, an item's accumulator is empty until its first answer, and the
\* results an item emits are those the server sent for that item.
C28_FailureDropsAccumulated ==
    /\ ((SuiteqlPaging \/ RestletPaging) /\ Rejected /= {}) =>
            /\ pc = "thrown" => RecordsOf(i) = <<>>
            /\ ItemDone => Latest = <<ErrorRecord("request failed", i - 1)>>
    /\ pc = "loop" => (allItems = <<>> /\ allResults = <<>> /\ currentStart = 0)
    /\ (pc \in {"suiteql_first", "restlet_page"} /\ received = 0) =>
            (allItems = <<>> /\ allResults = <<>>)
    /\ (SuiteqlPaging /\ ItemDone /\ Answered) =>
            Latest[1].json.items = served
    /\ (RestletPaging /\ ItemDone) =>
            \A n \in 1..Len(Aggregates) : Aggregates[n].json.results = served

\* The first item failed on its second page after a first page of results
\* and left its error record alone; the second item, a RESTlet pagination,
\* emitted only what the server sent for it.
C28_Witness ==
    /\ RestletPaging /\ ItemDone /\ i = 2
    /\ totalCalls - calls = 2
    /\ Len(errors) = 1 /\ errors[1].item = 0
    /\ RecordsOf(0) = <<ErrorRecord("request failed", 0)>>
    /\ Len(Aggregates) = 1
    /\ served /= <<>>
    /\ Aggregates[1].json.results = served

\* --------------------------------------------------------------------------
\* C29: RESTlet call with returnAll=true, whatever the page size: the start
\* index of a request is greater than that of the request before it, so the
\* k-th request of an item has a start index at least k - 1 above the first.
C29_StartIndexIncreases ==
    (RestletPaging /\ pc = "restlet_page") =>
        /\ request.body[params.startIndexField] = currentStart
        /\ currentStart >=
            InitialStart(params.restletBody.parsed, params.startIndexField)
            + (calls - 1)

\* --------------------------------------------------------------------------
\* The branch the latest item went into, told by the parameters read for it.
BranchTaken ==
    IF "query" \in DOMAIN params THEN "suiteql"
    ELSE IF "recordType" \in DOMAIN params THEN "record"
    ELSE IF {"scriptId", "uploadScriptId"} \cap DOMAIN params /= {}
            \/ params.operation = "bogus"
    THEN "restlet"
    ELSE "unsupported"

\* C30: the resource is the one read for item 0, for every item of the
\* batch: each item goes into the branch of that resource (the unsupported-
\* resource branch if it is none of the three) and its request is of that
\* resource, whatever resource the item itself resolves to; the operation is
\* the item's own.
C30_ResourceOfItemZero ==
    params.operation /= "" =>
        /\ CurrentItem = 0 => params.resource = resource
        /\ BranchTaken =
            IF resource \in {"suiteql", "record", "restlet"}
            THEN resource ELSE "unsupported"
        /\ pc \in Awaiting =>
            request.kind = IF request.kind = "upload" THEN "upload" ELSE resource
        /\ pc = "upload" <=> (resource = "restlet" /\ pc \in Awaiting
                               /\ params.operation = "uploadFile")
        /\ pc = "record" => request.method = MethodMap(params.operation)

\* The second item of a record batch resolves to another resource and to
\* another operation than the first; its request is a record request of its
\* own operation.
C30_Witness ==
    /\ resource = "record" /\ i = 1 /\ pc = "record"
    /\ params.resource /= resource
    /\ params.operation = "get"
    /\ request.kind = "record" /\ request.method = "GET"
    /\ Len(returnData) = 1 /\ ~IsError(returnData[1])
    /\ returnData[1].json.hasId

====
